---- MODULE Spec2Model ----
(***************************************************************************)
(* Persistence and session layer of the SQL Telegram bot                   *)
(* (src/database.py, src/bot.py).                                          *)
(*                                                                         *)
(* The store is the default one, sqlite:///telegram_bot.db                 *)
(* (database.py:14): a session that has flushed an INSERT holds the        *)
(* database write lock until it commits or is closed, a reader sees the    *)
(* committed rows plus the rows its own session has flushed, and an        *)
(* INTEGER PRIMARY KEY is one more than the largest id in the table.       *)
(* Session.close() without a commit rolls the open transaction back.       *)
(*                                                                         *)
(* Each handling cycle runs in a slot of Cycles; its steps interleave with *)
(* the other slot's at the store calls and at the awaits. Code between two *)
(* such points (opening the session on entry, unwinding the scopes after   *)
(* a return or a raise) runs with the step before it.                      *)
(***************************************************************************)
EXTENDS Integers, Sequences, FiniteSets, TLC

\* ---------------------------------------------------------------- bounds
MaxMessages == 2        \* Message rows the store may hold
MaxLimit == 2           \* largest limit get_user_messages is examined with

Cycles == {"c1", "c2"}          \* concurrently running handling cycles
TelegramIds == {1, 2}           \* external identities (update.effective_user.id)
Texts == {" Hi", "ok"}          \* message.text values
ButtonData == {"stats", "messages", "help"}     \* callback_data of the keyboard

DefaultLimit == 5       \* get_user_messages(user_id, limit=5)

\* The handlers main() registers, and "txn": a unit of work under get_session.
HandlerKinds == {"start", "help", "stats", "messages", "text", "button"}
ScopedKinds == {"text", "txn"}

VARIABLES
    users,      \* committed rows of table users
    messages,   \* committed rows of table messages
    now,        \* the clock read by the created_at default
    kind,       \* kind[c]: the event of cycle c ("idle" when the slot is free)
    handler,    \* handler[c]: the handler function currently running in c
    pc,         \* pc[c]: position of cycle c
    tid,        \* tid[c]: update.effective_user.id
    text,       \* text[c]: message.text
    data,       \* data[c]: query.data
    sess,       \* sess[c]: the sessions cycle c has open, innermost last
    dbUser,     \* dbUser[c]: the row get_or_create_user returned
    created,    \* created[c]: get_or_create_user inserted the row
    saved,      \* saved[c]: id of the row save_message inserted (0: none)
    stats,      \* stats[c]: what get_user_stats returned
    recent,     \* recent[c]: what get_user_messages returned
    replied,    \* replied[c]: the reply sent to the chat ("none": no reply)
    err,        \* err[c]: the exception propagating in c ("none": no exception)
    errAt,      \* errAt[c]: the position that raised it
    raced,      \* raced[c]: c's lookup missed while another cycle's lookup for
                \* the same identity had missed and not yet inserted
    saveCount   \* saveCount[u]: save_message calls that returned for user id u

vars == <<users, messages, now, kind, handler, pc, tid, text, data, sess,
          dbUser, created, saved, stats, recent, replied, err, errAt,
          raced, saveCount>>

store == <<users, messages, now>>
event == <<kind, tid, text, data>>
locals == <<dbUser, created, saved, stats, recent, replied>>
history == <<raced, saveCount>>

\* ---------------------------------------------------------------- schema
NoUser == [id |-> 0, telegram_id |-> 0]
UserRow(i, t) == [id |-> i, telegram_id |-> t]
MessageRow(i, u, x, at) == [id |-> i, user_id |-> u, text |-> x, created_at |-> at]
NoStats == [found |-> FALSE, user |-> NoUser, message_count |-> 0]
EmptySession == [pendU |-> {}, pendM |-> {}]

UserIds == 1..Cardinality(TelegramIds)

Max(S) == IF S = {} THEN 0 ELSE CHOOSE x \in S : \A y \in S : y <= x
Min2(a, b) == IF a <= b THEN a ELSE b

\* id of the next row of a table holding rows: one more than the largest id.
NextId(rows) == Max({r.id : r \in rows}) + 1

\* ---------------------------------------------------------------- sessions
Top(c) == sess[c][Len(sess[c])]
HasPending(s) == s.pendU # {} \/ s.pendM # {}

\* Another session than the innermost one of c holds the write lock.
LockedByOther(c) ==
    \/ \E d \in Cycles \ {c} : \E i \in 1..Len(sess[d]) : HasPending(sess[d][i])
    \/ \E i \in 1..(Len(sess[c]) - 1) : HasPending(sess[c][i])

\* The rows the innermost session of c reads.
ViewUsers(c) == users \cup Top(c).pendU
ViewMessages(c) == messages \cup Top(c).pendM

SetTop(c, s) == [sess EXCEPT ![c] = [@ EXCEPT ![Len(@)] = s]]

\* session.close(): the session leaves the stack, what it had pending is lost.
Close(stack) == SubSeq(stack, 1, Len(stack) - 1)

\* session.rollback(): the flushed rows of the innermost session are undone.
Rollback(stack) == [stack EXCEPT ![Len(stack)] = EmptySession]

\* A get_db that closes after the yield only, without try/finally.
get_db_close_no_finally(stack, raised) ==
    IF raised THEN stack ELSE Close(stack)

\* get_db: try: yield db / finally: db.close()
get_db_close(stack, raised) == Close(stack)

\* The with_db scopes of a cycle exit innermost first, with no await between.
RECURSIVE with_db_exit(_, _)
with_db_exit(stack, raised) ==
    IF stack = <<>> THEN <<>>
    ELSE LET rest == get_db_close(stack, raised)
         IN  IF Len(rest) = Len(stack) THEN stack ELSE with_db_exit(rest, raised)

\* get_session on a raise: except: session.rollback(); raise, then
\* finally: session.close()
get_session_except(stack) == Close(Rollback(stack))

\* The scopes of a cycle of kind k exit.
Unwind(k, stack, raised) ==
    IF k = "txn"
    THEN IF raised THEN get_session_except(stack) ELSE Close(stack)
    ELSE with_db_exit(stack, raised)

\* ---------------------------------------------------------------- queries
\* session.query(User).filter_by(telegram_id=t).first()
FirstUserByTelegramId(rows, t) ==
    LET hit == {u \in rows : u.telegram_id = t}
    IN  IF hit = {} THEN NoUser
        ELSE CHOOSE u \in hit : \A v \in hit : u.id <= v.id

\* A users table whose telegram_id column was declared without unique=True.
UniqueViolation_undeclared(rows, t) == FALSE

\* users.telegram_id is declared unique=True: the INSERT of a second row with
\* the same telegram_id is rejected.
UniqueViolation(rows, t) == \E u \in rows : u.telegram_id = t

\* A query built without .filter_by(user_id=user_id).
FilterByUserId_dropped(rows, user_id) == rows

\* .filter_by(user_id=user_id)
FilterByUserId(rows, user_id) == {m \in rows : m.user_id = user_id}

\* .order_by(Message.created_at.desc())
RECURSIVE OrderByCreatedAtDesc(_)
OrderByCreatedAtDesc(rows) ==
    IF rows = {} THEN <<>>
    ELSE LET m == CHOOSE x \in rows : \A y \in rows : y.created_at <= x.created_at
         IN  <<m>> \o OrderByCreatedAtDesc(rows \ {m})

\* A query built without .limit(limit).
Limit_dropped(seq, limit) == seq

\* .limit(limit)
Limit(seq, limit) == SubSeq(seq, 1, Min2(limit, Len(seq)))

get_user_messages(rows, user_id, limit) ==
    Limit(OrderByCreatedAtDesc(FilterByUserId(rows, user_id)), limit)

get_user_stats(urows, mrows, user_id) ==
    LET user == FirstUserByTelegramId(urows, user_id)
    IN  IF user = NoUser THEN NoStats
        ELSE [found |-> TRUE, user |-> user,
              message_count |-> Cardinality(FilterByUserId(mrows, user.id))]

\* ---------------------------------------------------------------- Init
Init ==
    /\ users = {}
    /\ messages = {}
    /\ now = 1
    /\ kind = [c \in Cycles |-> "idle"]
    /\ handler = [c \in Cycles |-> "idle"]
    /\ pc = [c \in Cycles |-> "idle"]
    /\ tid = [c \in Cycles |-> 0]
    /\ text = [c \in Cycles |-> ""]
    /\ data = [c \in Cycles |-> ""]
    /\ sess = [c \in Cycles |-> <<>>]
    /\ dbUser = [c \in Cycles |-> NoUser]
    /\ created = [c \in Cycles |-> FALSE]
    /\ saved = [c \in Cycles |-> 0]
    /\ stats = [c \in Cycles |-> NoStats]
    /\ recent = [c \in Cycles |-> <<>>]
    /\ replied = [c \in Cycles |-> "none"]
    /\ err = [c \in Cycles |-> "none"]
    /\ errAt = [c \in Cycles |-> "none"]
    /\ raced = [c \in Cycles |-> FALSE]
    /\ saveCount = [u \in UserIds |-> 0]

\* ---------------------------------------------------------------- dispatch
\* Text events in flight or stored: the store holds at most MaxMessages rows.
TextLoad == Cardinality(messages) + Cardinality({c \in Cycles : kind[c] = "text"})

\* First statement of a handler body.
FirstPc(h) ==
    CASE h \in {"start", "text", "txn"} -> "goc_lookup"
      [] h = "stats" -> "stats"
      [] h = "messages" -> "msgs"
      [] h = "help" -> "reply"
      [] h = "button" -> "answer"

\* with_db: `with get_db() as session` (get_session: session = SessionLocal())
\* opens a fresh session.
with_db_enter(stack) == Append(stack, EmptySession)

\* An event of a kind in K starts a cycle in slot c, and the scope around its
\* body opens the session.
Deliver(c, K) ==
    /\ pc[c] = "idle"
    /\ \E k \in K, t \in TelegramIds :
        \E x \in (IF k = "text" THEN Texts ELSE {""}) :
        \E d \in (IF k = "button" THEN ButtonData ELSE {""}) :
            /\ k = "text" => TextLoad < MaxMessages
            /\ kind' = [kind EXCEPT ![c] = k]
            /\ handler' = [handler EXCEPT ![c] = k]
            /\ tid' = [tid EXCEPT ![c] = t]
            /\ text' = [text EXCEPT ![c] = x]
            /\ data' = [data EXCEPT ![c] = d]
            /\ pc' = [pc EXCEPT ![c] = FirstPc(k)]
    /\ sess' = [sess EXCEPT ![c] = with_db_enter(@)]
    /\ UNCHANGED <<store, locals, err, errAt, history>>

\* The application hands one inbound event to its handler (bot.py main).
Dispatch(c) == Deliver(c, HandlerKinds)

\* No handler uses get_session: a unit of work whose body calls
\* get_or_create_user runs under it, beside the text-message handler.
DispatchScoped(c) == Deliver(c, ScopedKinds)

\* An exception raised at the current position propagates through the scopes
\* of the cycle and escapes the handler.
RaiseAt(c, e, at) ==
    /\ err' = [err EXCEPT ![c] = e]
    /\ errAt' = [errAt EXCEPT ![c] = at]
    /\ sess' = [sess EXCEPT ![c] = Unwind(kind[c], @, TRUE)]
    /\ pc' = [pc EXCEPT ![c] = "done"]

Raise(c, e) == RaiseAt(c, e, pc[c])

\* The handler returns and the scopes of the cycle exit.
Return(c) ==
    /\ sess' = [sess EXCEPT ![c] = Unwind(kind[c], @, FALSE)]
    /\ pc' = [pc EXCEPT ![c] = "done"]
    /\ UNCHANGED <<err, errAt>>

\* ---------------------------------------------------------------- repository
\* Where a handler goes on after get_or_create_user returned.
AfterGoc(h) ==
    CASE h = "start" -> "reply"
      [] h = "text" -> "save"
      [] h = "txn" -> "body"

\* get_or_create_user, the lookup:
\*   user = self.session.query(User).filter_by(telegram_id=...).first()
goc_lookup(c) ==
    /\ pc[c] = "goc_lookup"
    /\ \/ /\ Raise(c, "OperationalError")
          /\ UNCHANGED <<store, event, handler, locals, history>>
       \/ /\ LET user == FirstUserByTelegramId(ViewUsers(c), tid[c])
                 peers == {d \in Cycles \ {c} :
                               pc[d] = "goc_insert" /\ tid[d] = tid[c]}
             IN  IF user # NoUser
                 THEN /\ dbUser' = [dbUser EXCEPT ![c] = user]
                      /\ pc' = [pc EXCEPT ![c] = AfterGoc(handler[c])]
                      /\ UNCHANGED <<raced>>
                 ELSE /\ pc' = [pc EXCEPT ![c] = "goc_insert"]
                      /\ raced' = [d \in Cycles |->
                                     IF peers # {} /\ d \in peers \cup {c}
                                     THEN TRUE ELSE raced[d]]
                      /\ UNCHANGED <<dbUser>>
          /\ UNCHANGED <<store, event, handler, sess, created, saved, stats,
                         recent, replied, err, errAt, saveCount>>

\* get_or_create_user, `if not user:` User(...), session.add, session.flush.
\* The INSERT waits for the write lock; it is rejected when the table already
\* holds the telegram_id. No exception is caught here.
goc_insert(c) ==
    /\ pc[c] = "goc_insert"
    /\ \/ /\ Raise(c, "OperationalError")
          /\ UNCHANGED <<store, event, handler, locals, history>>
       \/ /\ ~LockedByOther(c)
          /\ UniqueViolation(ViewUsers(c), tid[c])
          /\ Raise(c, "IntegrityError")
          /\ UNCHANGED <<store, event, handler, locals, history>>
       \/ /\ ~LockedByOther(c)
          /\ ~UniqueViolation(ViewUsers(c), tid[c])
          /\ LET row == UserRow(NextId(ViewUsers(c)), tid[c])
             IN  /\ sess' = SetTop(c, [Top(c) EXCEPT !.pendU = @ \cup {row}])
                 /\ dbUser' = [dbUser EXCEPT ![c] = row]
          /\ created' = [created EXCEPT ![c] = TRUE]
          /\ pc' = [pc EXCEPT ![c] = AfterGoc(handler[c])]
          /\ UNCHANGED <<store, event, handler, saved, stats, recent, replied,
                         err, errAt, history>>

\* A save_message that ends with session.flush() in place of session.commit().
save_message_flush_only(c) ==
    /\ pc[c] = "save"
    /\ \/ /\ Raise(c, "OperationalError")
          /\ UNCHANGED <<store, event, handler, locals, history>>
       \/ /\ ~LockedByOther(c)
          /\ LET msg == MessageRow(NextId(ViewMessages(c)), dbUser[c].id,
                                   text[c], now)
             IN  /\ sess' = SetTop(c, [Top(c) EXCEPT !.pendM = @ \cup {msg}])
                 /\ saved' = [saved EXCEPT ![c] = msg.id]
          /\ now' = now + 1
          /\ saveCount' = [saveCount EXCEPT ![dbUser[c].id] = @ + 1]
          /\ pc' = [pc EXCEPT ![c] = "reply"]
          /\ UNCHANGED <<users, messages, event, handler, dbUser, created,
                         stats, recent, replied, err, errAt, raced>>

\* A handle_message that sends its reply before it calls save_message.
save_message_reply_first(c) ==
    /\ pc[c] = "save"
    /\ replied' = [replied EXCEPT ![c] = "saved"]
    /\ \/ /\ Raise(c, "OperationalError")
          /\ UNCHANGED <<store, event, handler, dbUser, created, saved, stats,
                         recent, history>>
       \/ /\ ~LockedByOther(c)
          /\ LET msg == MessageRow(NextId(ViewMessages(c)), dbUser[c].id,
                                   text[c], now)
             IN  /\ messages' = messages \cup Top(c).pendM \cup {msg}
                 /\ saved' = [saved EXCEPT ![c] = msg.id]
          /\ users' = users \cup Top(c).pendU
          /\ now' = now + 1
          /\ sess' = SetTop(c, EmptySession)
          /\ saveCount' = [saveCount EXCEPT ![dbUser[c].id] = @ + 1]
          /\ pc' = [pc EXCEPT ![c] = "reply"]
          /\ UNCHANGED <<event, handler, dbUser, created, stats, recent,
                         err, errAt, raced>>

\* A save_message that keeps one row per user: the new row takes the place of
\* the rows the user already has (session.merge on a fixed key, not add).
save_message_overwrite(c) ==
    /\ pc[c] = "save"
    /\ \/ /\ Raise(c, "OperationalError")
          /\ UNCHANGED <<store, event, handler, locals, history>>
       \/ /\ ~LockedByOther(c)
          /\ LET msg == MessageRow(NextId(ViewMessages(c)), dbUser[c].id,
                                   text[c], now)
             IN  /\ messages' = {m \in messages : m.user_id # dbUser[c].id}
                                    \cup {msg}
                 /\ saved' = [saved EXCEPT ![c] = msg.id]
          /\ users' = users \cup Top(c).pendU
          /\ now' = now + 1
          /\ sess' = SetTop(c, EmptySession)
          /\ saveCount' = [saveCount EXCEPT ![dbUser[c].id] = @ + 1]
          /\ pc' = [pc EXCEPT ![c] = "reply"]
          /\ UNCHANGED <<event, handler, dbUser, created, stats, recent,
                         replied, err, errAt, raced>>

\* save_message: Message(...), session.add(msg), session.commit(). The commit
\* flushes the new row and makes everything the session has pending durable.
save_message(c) ==
    /\ pc[c] = "save"
    /\ \/ /\ Raise(c, "OperationalError")
          /\ UNCHANGED <<store, event, handler, locals, history>>
       \/ /\ ~LockedByOther(c)
          /\ LET msg == MessageRow(NextId(ViewMessages(c)), dbUser[c].id,
                                   text[c], now)
             IN  /\ messages' = messages \cup Top(c).pendM \cup {msg}
                 /\ saved' = [saved EXCEPT ![c] = msg.id]
          /\ users' = users \cup Top(c).pendU
          /\ now' = now + 1
          /\ sess' = SetTop(c, EmptySession)
          /\ saveCount' = [saveCount EXCEPT ![dbUser[c].id] = @ + 1]
          /\ pc' = [pc EXCEPT ![c] = "reply"]
          /\ UNCHANGED <<event, handler, dbUser, created, stats, recent,
                         replied, err, errAt, raced>>

\* A stats_command that resolves the identity with get_or_create_user
\* semantics: a miss inserts and flushes a User row before the statistics are
\* read.
stats_query_creates(c) ==
    /\ pc[c] = "stats"
    /\ \/ /\ Raise(c, "OperationalError")
          /\ UNCHANGED <<store, event, handler, locals, history>>
       \/ /\ ~LockedByOther(c)
          /\ LET miss == FirstUserByTelegramId(ViewUsers(c), tid[c]) = NoUser
                 row == UserRow(NextId(ViewUsers(c)), tid[c])
                 seen == IF miss THEN ViewUsers(c) \cup {row} ELSE ViewUsers(c)
             IN  /\ sess' = IF miss
                             THEN SetTop(c, [Top(c) EXCEPT !.pendU = @ \cup {row}])
                             ELSE sess
                 /\ stats' = [stats EXCEPT ![c] =
                                get_user_stats(seen, ViewMessages(c), tid[c])]
          /\ pc' = [pc EXCEPT ![c] = "reply"]
          /\ UNCHANGED <<store, event, handler, dbUser, created, saved,
                         recent, replied, err, errAt, history>>

\* stats_command: stats = context.db.get_user_stats(update.effective_user.id)
stats_query(c) ==
    /\ pc[c] = "stats"
    /\ \/ /\ Raise(c, "OperationalError")
          /\ UNCHANGED <<store, event, handler, locals, history>>
       \/ /\ stats' = [stats EXCEPT ![c] =
                          get_user_stats(ViewUsers(c), ViewMessages(c), tid[c])]
          /\ pc' = [pc EXCEPT ![c] = "reply"]
          /\ UNCHANGED <<store, event, handler, sess, dbUser, created, saved,
                         recent, replied, err, errAt, history>>

\* messages_command: user_id = update.effective_user.id;
\*   messages = context.db.get_user_messages(user_id, limit=5)
msgs_query(c) ==
    /\ pc[c] = "msgs"
    /\ \/ /\ Raise(c, "OperationalError")
          /\ UNCHANGED <<store, event, handler, locals, history>>
       \/ /\ recent' = [recent EXCEPT ![c] =
                          get_user_messages(ViewMessages(c), tid[c], DefaultLimit)]
          /\ pc' = [pc EXCEPT ![c] = "reply"]
          /\ UNCHANGED <<store, event, handler, sess, dbUser, created, saved,
                         stats, replied, err, errAt, history>>

\* ---------------------------------------------------------------- replies
\* message.text.strip().lower()
StripLower(x) == CASE x = " Hi" -> "hi" [] OTHER -> x

\* The reply a handler sends.
ReplyOf(c) ==
    CASE handler[c] = "start" -> "welcome"
      [] handler[c] = "help" -> "help"
      [] handler[c] = "stats" ->
            IF stats[c].found THEN "stats" ELSE "nostats"
      [] handler[c] = "messages" ->
            IF recent[c] # <<>> THEN "messages" ELSE "nomessages"
      [] handler[c] = "text" ->
            IF StripLower(text[c]) \in {"hello", "hi", "hey"}
            THEN "hello" ELSE "saved"

\* await update.message.reply_text(...) / message.reply_text(...), the last
\* statement of every handler. On a callback-query update update.message is
\* None, so a handler that button_callback routed to raises before anything
\* is sent.
reply(c) ==
    /\ pc[c] = "reply"
    /\ IF kind[c] = "button"
       THEN /\ Raise(c, "AttributeError")
            /\ UNCHANGED replied
       ELSE \/ /\ Raise(c, "SendError")
               /\ UNCHANGED replied
            \/ /\ replied' = [replied EXCEPT ![c] = ReplyOf(c)]
               /\ Return(c)
    /\ UNCHANGED <<store, event, handler, dbUser, created, saved, stats,
                   recent, history>>

\* button_callback: await query.answer(), then route on query.data to
\* stats_command, messages_command or help_command; each of them is wrapped
\* by with_db and opens its own session.
button_callback(c) ==
    /\ pc[c] = "answer"
    /\ \/ /\ Raise(c, "SendError")
          /\ UNCHANGED handler
       \/ /\ handler' = [handler EXCEPT ![c] = data[c]]
          /\ sess' = [sess EXCEPT ![c] = with_db_enter(@)]
          /\ pc' = [pc EXCEPT ![c] = FirstPc(data[c])]
          /\ UNCHANGED <<err, errAt>>
    /\ UNCHANGED <<store, event, locals, history>>

\* ---------------------------------------------------------------- get_session
\* A get_session whose normal exit closes the session without session.commit().
get_session_exit_no_commit(c) ==
    /\ pc[c] = "body"
    /\ \/ /\ RaiseAt(c, "BodyError", "body")
          /\ UNCHANGED store
       \/ /\ RaiseAt(c, "OperationalError", "commit")
          /\ UNCHANGED store
       \/ /\ ~LockedByOther(c)
          /\ Return(c)
          /\ UNCHANGED store
    /\ UNCHANGED <<event, handler, locals, history>>

\* get_session, after get_or_create_user returned into the scoped body: the
\* rest of the body raises (except: session.rollback(); raise), or it returns
\* and session.commit() runs, which may fail in turn (same except clause).
\* finally: session.close()
get_session_exit(c) ==
    /\ pc[c] = "body"
    /\ \/ /\ RaiseAt(c, "BodyError", "body")
          /\ UNCHANGED store
       \/ /\ RaiseAt(c, "OperationalError", "commit")
          /\ UNCHANGED store
       \/ /\ ~LockedByOther(c)
          /\ users' = users \cup Top(c).pendU
          /\ messages' = messages \cup Top(c).pendM
          /\ Return(c)
          /\ UNCHANGED now
    /\ UNCHANGED <<event, handler, locals, history>>

\* ---------------------------------------------------------------- end of cycle
\* The cycle is over: an exception that escaped went to error_handler, which
\* logs it, and the slot takes the next event.
Finish(c) ==
    /\ pc[c] = "done"
    /\ kind' = [kind EXCEPT ![c] = "idle"]
    /\ handler' = [handler EXCEPT ![c] = "idle"]
    /\ pc' = [pc EXCEPT ![c] = "idle"]
    /\ tid' = [tid EXCEPT ![c] = 0]
    /\ text' = [text EXCEPT ![c] = ""]
    /\ data' = [data EXCEPT ![c] = ""]
    /\ dbUser' = [dbUser EXCEPT ![c] = NoUser]
    /\ created' = [created EXCEPT ![c] = FALSE]
    /\ saved' = [saved EXCEPT ![c] = 0]
    /\ stats' = [stats EXCEPT ![c] = NoStats]
    /\ recent' = [recent EXCEPT ![c] = <<>>]
    /\ replied' = [replied EXCEPT ![c] = "none"]
    /\ err' = [err EXCEPT ![c] = "none"]
    /\ errAt' = [errAt EXCEPT ![c] = "none"]
    /\ raced' = [raced EXCEPT ![c] = FALSE]
    /\ UNCHANGED <<store, sess, saveCount>>

Next ==
    \E c \in Cycles :
        \/ Dispatch(c)
        \/ goc_lookup(c)
        \/ goc_insert(c)
        \/ save_message(c)
        \/ stats_query(c)
        \/ msgs_query(c)
        \/ reply(c)
        \/ button_callback(c)
        \/ Finish(c)

\* The bot: the registered handlers over the store.
Spec == Init /\ [][Next]_vars

NextScoped ==
    \E c \in Cycles :
        \/ DispatchScoped(c)
        \/ goc_lookup(c)
        \/ goc_insert(c)
        \/ save_message(c)
        \/ reply(c)
        \/ get_session_exit(c)
        \/ Finish(c)

\* Units of work under get_session and text-message cycles over the store.
SpecScoped == Init /\ [][NextScoped]_vars

\* ================================================================ properties
UsersOf(t) == {u \in users : u.telegram_id = t}

\* C1: in every reachable state, whatever the interleaving of the handling
\* cycles, the users table holds at most one row per telegram_id, and so does
\* the table as any open session sees it (its own flushed rows included).
C1_OneRowPerTelegramId ==
    /\ \A u, v \in users : u.telegram_id = v.telegram_id => u = v
    /\ \A c \in Cycles : \A i \in 1..Len(sess[c]) :
          \A u, v \in users \cup sess[c][i].pendU :
              u.telegram_id = v.telegram_id => u = v

\* C1 witness: two cycles raced on the lookup for one identity and the
\* insert of the loser was rejected.
C1_Witness ==
    \E c \in Cycles : raced[c] /\ err[c] = "IntegrityError" /\ UsersOf(tid[c]) # {}

\* C2 (as claimed): when two cycles for the same unseen identity both missed
\* on the lookup before either inserted, and both have completed normally,
\* the store holds exactly one User row for that identity.
C2_ExactlyOneRowAfterRace ==
    \A c, d \in Cycles :
        (/\ c # d
         /\ pc[c] = "done" /\ pc[d] = "done"
         /\ raced[c] /\ raced[d] /\ tid[c] = tid[d]
         /\ err[c] = "none" /\ err[d] = "none")
        => Cardinality(UsersOf(tid[c])) = 1

\* C3 (as claimed): of two cycles in which get_or_create_user returned
\* normally, those for distinct identities hold distinct rows, and those for
\* the same identity hold the same row, which at most one of them inserted (a
\* repeated call adds no row).
C3_DistinctAndIdempotent ==
    \A c, d \in Cycles :
        (/\ c # d
         /\ dbUser[c] # NoUser /\ dbUser[d] # NoUser
         /\ err[c] = "none" /\ err[d] = "none")
        => IF tid[c] = tid[d]
           THEN dbUser[c] = dbUser[d] /\ ~(created[c] /\ created[d])
           ELSE dbUser[c] # dbUser[d]

\* C4: for every stored user with N returned save_message calls and every
\* limit M, get_user_messages(user.id, M) returns min(N, M) rows, all owned by
\* the user, strictly most-recent-first, none older than a row left out, and
\* get_user_stats(user.telegram_id) reports message_count = N.
C4_RecentMessagesAndCount ==
    \A u \in users :
        /\ \A st \in {get_user_stats(users, messages, u.telegram_id)} :
              st.found /\ st.message_count = saveCount[u.id]
        /\ \A M \in 0..MaxLimit :
              \A r \in {get_user_messages(messages, u.id, M)} :
                  /\ Len(r) = Min2(saveCount[u.id], M)
                  /\ \A i \in 1..Len(r) :
                        /\ r[i] \in messages
                        /\ r[i].user_id = u.id
                        /\ i < Len(r) => r[i].created_at > r[i + 1].created_at
                  /\ \A m \in FilterByUserId(messages, u.id) :
                        \/ \E i \in 1..Len(r) : r[i] = m
                        \/ \A i \in 1..Len(r) : m.created_at < r[i].created_at

\* C4 witness: a user with more saved messages than a limit in range, whose
\* query is cut to the limit.
C4_Witness ==
    \E u \in users :
        /\ saveCount[u.id] = 2
        /\ Len(get_user_messages(messages, u.id, 1)) = 1
        /\ Len(get_user_messages(messages, u.id, 2)) = 2

\* C5: once save_message has returned in a cycle, the row it inserted is in
\* the committed store, with the cycle's user and text, and stays there
\* through a failing reply and the release of the session.
C5_SavedMessageIsDurable ==
    \A c \in Cycles :
        saved[c] # 0 =>
            \E m \in messages :
                m.id = saved[c] /\ m.user_id = dbUser[c].id /\ m.text = text[c]

\* C5 witness: the reply after save_message failed and the session was released.
C5_Witness ==
    \E c \in Cycles :
        /\ saved[c] # 0 /\ pc[c] = "done" /\ sess[c] = <<>>
        /\ err[c] = "SendError" /\ errAt[c] = "reply"

\* C6 (as claimed): when a text cycle creates the user and save_message then
\* fails with a store error, the User row is in the store after the cycle.
C6_UserSurvivesFailedSave ==
    \A c \in Cycles :
        (/\ kind[c] = "text" /\ pc[c] = "done"
         /\ created[c] /\ errAt[c] = "save")
        => UsersOf(tid[c]) # {}

\* C7 (as claimed): a rejected duplicate insert never escapes
\* get_or_create_user; the existing row is returned instead.
C7_DuplicateInsertRecovered ==
    \A c \in Cycles : err[c] # "IntegrityError"

\* C8: a cycle that is over, by return or by raise, has no session open.
C8_SessionsClosed ==
    \A c \in Cycles : pc[c] \in {"idle", "done"} => sess[c] = <<>>

\* C8 witness: a button cycle that opened two sessions ended by a raise.
C8_Witness ==
    \E c \in Cycles :
        /\ kind[c] = "button" /\ pc[c] = "done"
        /\ err[c] = "AttributeError" /\ sess[c] = <<>>

\* C9: in the step that ends a get_session scope, the session is closed; if
\* the body returned and the commit went through, everything the session had
\* pending is committed and no error is raised; if the body raised (or the
\* commit did), nothing of it reaches the store and the error goes to the
\* caller.
C9_CommitOrRollback ==
    [][\A c \in Cycles :
          (kind[c] = "txn" /\ pc[c] \notin {"idle", "done"} /\ pc'[c] = "done") =>
              /\ sess'[c] = <<>>
              /\ IF err'[c] = "none"
                 THEN /\ pc[c] = "body"
                      /\ users' = users \cup Top(c).pendU
                      /\ messages' = messages \cup Top(c).pendM
                 ELSE /\ users' = users
                      /\ messages' = messages]_vars

\* C9 witness: a scope whose body inserted a user and then raised; the row is
\* not in the store.
C9_Witness ==
    \E c \in Cycles :
        /\ kind[c] = "txn" /\ pc[c] = "done" /\ created[c]
        /\ err[c] = "BodyError" /\ UsersOf(tid[c]) = {}

\* C10 (as claimed): no cycle ever holds two open sessions.
C10_OneSessionPerCycle ==
    \A c \in Cycles : Len(sess[c]) <= 1

\* C11 (as claimed): a cycle that stands at a call of save_message,
\* get_user_stats or get_user_messages has had get_or_create_user return a
\* user in that same cycle.
C11_UserResolvedFirst ==
    \A c \in Cycles : pc[c] \in {"save", "stats", "msgs"} => dbUser[c] # NoUser

\* C12: when a text-message cycle that inserted the User row of its identity
\* has completed normally, the store holds exactly one User row with that
\* telegram_id, and a Message row with the sent text owned by that row;
\* get_user_stats for the identity finds the row and counts the messages
\* saved for it, which is 1 when this message is the only one saved for it.
C12_FirstTextStoresUserAndMessage ==
    \A c \in Cycles :
        (/\ kind[c] = "text" /\ pc[c] = "done"
         /\ err[c] = "none" /\ created[c])
        => /\ UsersOf(tid[c]) = {dbUser[c]}
           /\ \E m \in messages :
                 /\ m.id = saved[c] /\ m.text = text[c]
                 /\ m.user_id = dbUser[c].id
                 /\ saveCount[dbUser[c].id] = 1 =>
                       FilterByUserId(messages, dbUser[c].id) = {m}
           /\ \A st \in {get_user_stats(users, messages, tid[c])} :
                 /\ st.found /\ st.user = dbUser[c]
                 /\ st.message_count = saveCount[dbUser[c].id]
                 /\ st.message_count >= 1

\* C12 witness: the first text message of an identity went through and the
\* statistics of the identity count one message.
C12_Witness ==
    \E c \in Cycles :
        /\ kind[c] = "text" /\ pc[c] = "done" /\ err[c] = "none" /\ created[c]
        /\ replied[c] # "none"
        /\ get_user_stats(users, messages, tid[c]).message_count = 1

\* C13: whatever the store holds, for every user id and every limit, every
\* row get_user_messages(user_id, limit) returns is a stored Message row whose
\* user_id is the one asked for.
C13_OnlyOwnMessages ==
    \A user_id \in UserIds : \A M \in (0..MaxLimit) \cup {DefaultLimit} :
        \A r \in {get_user_messages(messages, user_id, M)} :
            \A i \in 1..Len(r) :
                r[i] \in messages /\ r[i].user_id = user_id

\* C13 witness: the store holds messages of two users and the query for one
\* of them returns its message alone.
C13_Witness ==
    \E m, n \in messages :
        /\ m.user_id # n.user_id
        /\ get_user_messages(messages, m.user_id, DefaultLimit) = <<m>>

\* C14: get_user_stats for an identity with no User row returns the absent
\* result; the step in which stats_command makes the call for such an
\* identity raises nothing but a failure of the store itself, leaves the
\* users and messages tables as they were and leaves no row pending in the
\* session; stats_command then answers that there are no statistics.
C14_AbsentStatsNoError ==
    /\ [](\A t \in TelegramIds :
             UsersOf(t) = {} => get_user_stats(users, messages, t) = NoStats)
    /\ [](\A c \in Cycles :
             (/\ kind[c] = "stats" /\ pc[c] = "done"
              /\ err[c] = "none" /\ ~stats[c].found)
             => stats[c] = NoStats /\ replied[c] = "nostats")
    /\ [][\A c \in Cycles :
             (/\ pc[c] = "stats" /\ pc'[c] # "stats"
              /\ FirstUserByTelegramId(ViewUsers(c), tid[c]) = NoUser)
             => /\ users' = users
                /\ messages' = messages
                /\ \A i \in 1..Len(sess'[c]) : ~HasPending(sess'[c][i])
                /\ err'[c] \in {"none", "OperationalError"}
                /\ err'[c] = "none" =>
                      stats'[c] = NoStats /\ pc'[c] = "reply"]_vars

\* C14 witness: a /stats cycle of an identity with no User row ended
\* normally with the no-statistics answer, while the store holds the row of
\* another identity.
C14_Witness ==
    \E c \in Cycles :
        /\ kind[c] = "stats" /\ pc[c] = "done" /\ err[c] = "none"
        /\ stats[c] = NoStats /\ replied[c] = "nostats"
        /\ UsersOf(tid[c]) = {} /\ users # {}

\* C15 (as claimed): after a /start cycle has completed normally and its
\* session is released, the store holds a User row for the identity.
C15_StartStoresUser ==
    \A c \in Cycles :
        (/\ kind[c] = "start" /\ pc[c] = "done"
         /\ err[c] = "none" /\ sess[c] = <<>>)
        => UsersOf(tid[c]) # {}

\* C16 (as claimed): the messages command of identity X reads the most recent
\* messages, up to 5, of X's own User row, and nothing when X has no row.
C16_MessagesListsOwn ==
    [][\A c \in Cycles :
          (pc[c] = "msgs" /\ pc'[c] = "reply") =>
              \A own \in {FirstUserByTelegramId(ViewUsers(c), tid[c])} :
                  recent'[c] =
                      IF own = NoUser THEN <<>>
                      ELSE get_user_messages(ViewMessages(c), own.id,
                                             DefaultLimit)]_vars

\* The positions at which a cycle is inside a repository operation.
RepositoryPcs == {"goc_lookup", "goc_insert", "save", "stats", "msgs"}

\* C17: a cycle in which a repository operation raised has sent no reply to
\* the chat, and sends none before its slot takes the next event.
C17_NoReplyAfterRepositoryError ==
    \A c \in Cycles : errAt[c] \in RepositoryPcs => replied[c] = "none"

\* C17 witness: save_message failed in a text cycle, after the user had been
\* resolved; the cycle is over and nothing was sent.
C17_Witness ==
    \E c \in Cycles :
        /\ kind[c] = "text" /\ pc[c] = "done" /\ errAt[c] = "save"
        /\ dbUser[c] # NoUser /\ replied[c] = "none"

\* C18: no step removes or changes a committed Message row, and the committed
\* message count of no user goes down.
C18_MessagesAppendOnly ==
    [][/\ messages \subseteq messages'
       /\ \A u \in UserIds :
             Cardinality(FilterByUserId(messages', u)) >=
                 Cardinality(FilterByUserId(messages, u))]_vars

\* C18 witness: a user has two committed messages and a later cycle of the
\* same identity failed and was rolled back.
C18_Witness ==
    \E c \in Cycles : \E u \in UsersOf(tid[c]) :
        /\ pc[c] = "done" /\ err[c] # "none"
        /\ Cardinality(FilterByUserId(messages, u.id)) = 2

====
